---- MODULE Spec2Model ----
(***************************************************************************)
(* Model of package paginator (src/paginator.go): a Paginator built from   *)
(* an Opt, the Set it hands out per request (New / NewFromURL), the page   *)
(* number window SetTotal computes on it (generateNumbers) and the anchors *)
(* HTML renders from it.                                                   *)
(***************************************************************************)
EXTENDS Integers, Sequences, FiniteSets, TLC

\* ------------------------------------------------------------------ bounds

\* Width of Go's int in the model (64 in the build); all int arithmetic wraps.
IntBits == 8
\* Opt.DefaultPerPage ranges over 1..MaxDefaultPerPage.
MaxDefaultPerPage == 2
\* Opt.MaxPerPage ranges over 1..MaxMaxPerPage.
MaxMaxPerPage == 2
\* Opt.NumPageNums ranges over 0..MaxNumPageNums.
MaxNumPageNums == 4
\* The page argument of New ranges over 0..MaxPageArg.
MaxPageArg == 5
\* The perPage argument of New ranges over -1..MaxPerPageArg.
MaxPerPageArg == 2
\* The argument of SetTotal ranges over 0..MaxTotalArg.
MaxTotalArg == 5

\* ------------------------------------------------------- Go's int (wrapping)

Modulus == 2 ^ IntBits
MinInt == -(2 ^ (IntBits - 1))
MaxInt == (2 ^ (IntBits - 1)) - 1

\* The value of an int expression: two's complement wrap-around.
Wrap(x) == ((x - MinInt) % Modulus) + MinInt

\* int(math.Ceil(float64(a) / float64(b))) for b # 0 (exact on the model's range).
ceilDiv(a, b) == IF b > 0 THEN -((-a) \div b) ELSE -(a \div (-b))

\* What int(+Inf) may give: Go leaves the conversion of a float the int cannot
\* represent implementation-dependent (amd64 gives the minimum int, arm64
\* saturates to the maximum).
IntOfInfOutcomes == {MinInt, MaxInt}

\* ---------------------------------------------------------------- url.Values

Keys == {"page", "per_page", "q"}
\* The keys in the order Encode sorts them.
KeyOrder == <<"page", "per_page", "q">>

\* A url.Values: nil or a map; a key that is absent holds no values.
NoValues == [k \in Keys |-> <<>>]
NilValues == [isNil |-> TRUE, m |-> NoValues]
EmptyValues == [isNil |-> FALSE, m |-> NoValues]
MakeValues(k, vs) == [isNil |-> FALSE, m |-> [NoValues EXCEPT ![k] = vs]]

\* url.Values.Get: the first value of the key, "" when there is none.
ValuesGet(v, k) == IF Len(v.m[k]) = 0 THEN "" ELSE v.m[k][1]

\* url.Values.Set: the key's values replaced by the one value.
ValuesSet(v, k, val) == [isNil |-> FALSE, m |-> [v.m EXCEPT ![k] = <<val>>]]

\* url.QueryEscape on the texts of the model: a space becomes "+".
QueryEscape(t) == IF t = "a b" THEN "a+b" ELSE t

RECURSIVE encodeFrom(_, _)
encodeFrom(v, i) ==
  IF i > Len(KeyOrder) THEN <<>>
  ELSE LET k == KeyOrder[i]
       IN [j \in 1..Len(v.m[k]) |-> <<QueryEscape(k), QueryEscape(v.m[k][j])>>]
            \o encodeFrom(v, i + 1)

\* url.Values.Encode: the key=value pairs, escaped, sorted by key.
Encode(v) == encodeFrom(v, 1)

\* fmt.Sprintf("%d", n)
Itoa(n) == ToString(n)

\* The texts a query holds in the model, and what each parses to.
Texts == {"", "all", "abc", "-1", "1", "2"}
AtoiTable ==
  [t \in Texts |->
     IF \E n \in MinInt..MaxInt : Itoa(n) = t
     THEN CHOOSE n \in MinInt..MaxInt : Itoa(n) = t
     ELSE 0]

\* strconv.Atoi with its error dropped: the int the text is the decimal form
\* of, 0 for any other text.
Atoi(t) == AtoiTable[t]

\* ----------------------------------------------------------------------- Opt

Opts ==
  [DefaultPerPage : 1..MaxDefaultPerPage,
   MaxPerPage     : 1..MaxMaxPerPage,
   NumPageNums    : 0..MaxNumPageNums,
   PerPageParam   : {"per_page"},
   PageParam      : {"page"},
   AllowAll       : BOOLEAN,
   AllowAllParam  : {"", "all"}]

\* New(o Opt) *Paginator
New(opt) ==
  IF opt.AllowAllParam = "" THEN [opt EXCEPT !.AllowAllParam = "all"] ELSE opt

\* ----------------------------------------------------------------------- Set

\* The zero Set.
ZeroSet ==
  [Page |-> 0, PerPage |-> 0, TotalPages |-> 0, Total |-> 0, Params |-> NilValues,
   Offset |-> 0, Limit |-> 0, PinFirstPage |-> FALSE, PinLastPage |-> FALSE,
   Pages |-> <<>>]

\* sanitizePerPage without the MaxPerPage clamp.
sanitizePerPageNoMax(opt, perPage) ==
  IF perPage < 0 /\ opt.AllowAll THEN 0
  ELSE IF perPage < 1 THEN opt.DefaultPerPage
  ELSE perPage

\* sanitizePerPage clamping to MaxPerPage whatever AllowAll says.
sanitizePerPageAlwaysMax(opt, perPage) ==
  IF perPage < 0 /\ opt.AllowAll THEN 0
  ELSE IF perPage < 1 THEN opt.DefaultPerPage
  ELSE IF perPage > opt.MaxPerPage THEN opt.MaxPerPage
  ELSE perPage

\* perPage as New sanitizes it.
sanitizePerPage(opt, perPage) ==
  IF perPage < 0 /\ opt.AllowAll THEN 0
  ELSE IF perPage < 1 THEN opt.DefaultPerPage
  ELSE IF ~opt.AllowAll /\ perPage > opt.MaxPerPage THEN opt.MaxPerPage
  ELSE perPage

\* page as New sanitizes it.
sanitizePage(page) == IF page < 1 THEN 1 ELSE page

\* (p *Paginator) New(page, perPage int) Set
PaginatorNew(opt, page, perPage) ==
  LET pp == sanitizePerPage(opt, perPage)
      pg == sanitizePage(page)
  IN [ZeroSet EXCEPT !.Page = pg, !.PerPage = pp,
                     !.Offset = Wrap((pg - 1) * pp), !.Limit = pp]

\* The page and perPage NewFromURL reads from the query.
fromURL(opt, q) ==
  LET perPage == Atoi(ValuesGet(q, opt.PerPageParam))
      page    == Atoi(ValuesGet(q, opt.PageParam))
  IN [page |-> page,
      perPage |-> IF ValuesGet(q, opt.PerPageParam) = opt.AllowAllParam
                  THEN -1 ELSE perPage]

\* (p *Paginator) NewFromURL(q url.Values) Set
NewFromURL(opt, q) == PaginatorNew(opt, fromURL(opt, q).page, fromURL(opt, q).perPage)

\* ------------------------------------------------------------ generateNumbers

\* The locals of a generateNumbers call that returned early (or none ran).
NoGen ==
  [computed |-> FALSE, panicked |-> FALSE, numPages |-> 0, clamped |-> FALSE, half |-> 0,
   first |-> 0, last |-> 0, front |-> FALSE, back |-> FALSE]

\* The single-page short-circuit.
resetFirstPage(set) == [set EXCEPT !.Offset = 0, !.Page = 1]

\* numPagesOf with an integer division in place of the ceiling.
numPagesFloor(total, perPage, inf) ==
  IF perPage = 0 THEN inf ELSE total \div perPage

\* numPages := int(math.Ceil(float64(s.Total) / float64(s.PerPage))), reached
\* with Total > PerPage; a zero PerPage divides to +Inf.
numPagesOf(total, perPage, inf) ==
  IF perPage = 0 THEN inf ELSE ceilDiv(total, perPage)

\* clampPage leaving the Offset of the page asked for.
clampPageStaleOffset(set, numPages) ==
  IF set.Page > numPages THEN [set EXCEPT !.Page = numPages] ELSE set

\* A page beyond the last one is pulled back to it.
clampPage(set, numPages) ==
  IF set.Page > numPages
  THEN [set EXCEPT !.Offset = Wrap(Wrap(numPages - 1) * set.PerPage),
                   !.Page = numPages]
  ELSE set

\* window whose back re-expansion keeps numPageNums entries (first = last - n + 1).
windowBackShort(page, numPages, numPageNums) ==
  LET half   == numPageNums \div 2
      first0 == Wrap(page - half)
      last0  == Wrap(page + half)
      first1 == IF first0 < 1 THEN 1 ELSE first0
      last1  == IF last0 > numPages THEN numPages ELSE last0
      wider  == numPages > numPageNums
      front  == wider /\ last1 < numPages /\ page <= half
      last2  == IF front THEN Wrap(Wrap(first1 + numPageNums) - 1) ELSE last1
      back   == wider /\ page > Wrap(numPages - half)
      first2 == IF back THEN Wrap(Wrap(last2 - numPageNums) + 1) ELSE first1
  IN [half |-> half, first |-> first2, last |-> last2, front |-> front, back |-> back]

\* window whose back re-expansion tests the page against the whole width
\* (page > numPages - numPageNums).
windowBackByWidth(page, numPages, numPageNums) ==
  LET half   == numPageNums \div 2
      first0 == Wrap(page - half)
      last0  == Wrap(page + half)
      first1 == IF first0 < 1 THEN 1 ELSE first0
      last1  == IF last0 > numPages THEN numPages ELSE last0
      wider  == numPages > numPageNums
      front  == wider /\ last1 < numPages /\ page <= half
      last2  == IF front THEN Wrap(Wrap(first1 + numPageNums) - 1) ELSE last1
      back   == wider /\ page > Wrap(numPages - numPageNums)
      first2 == IF back THEN Wrap(last2 - numPageNums) ELSE first1
  IN [half |-> half, first |-> first2, last |-> last2, front |-> front, back |-> back]

\* first and last page number to print, and which re-expansion ran.
window(page, numPages, numPageNums) ==
  LET half   == numPageNums \div 2
      first0 == Wrap(page - half)
      last0  == Wrap(page + half)
      first1 == IF first0 < 1 THEN 1 ELSE first0
      last1  == IF last0 > numPages THEN numPages ELSE last0
      wider  == numPages > numPageNums
      front  == wider /\ last1 < numPages /\ page <= half
      last2  == IF front THEN Wrap(Wrap(first1 + numPageNums) - 1) ELSE last1
      back   == wider /\ page > Wrap(numPages - half)
      first2 == IF back THEN Wrap(last2 - numPageNums) ELSE first1
  IN [half |-> half, first |-> first2, last |-> last2, front |-> front, back |-> back]

\* The pin flags are raised, never lowered.
pin(set, first, last, numPages) ==
  [set EXCEPT !.PinFirstPage = IF first # 1 THEN TRUE ELSE @,
              !.PinLastPage  = IF last # numPages THEN TRUE ELSE @]

\* pageRange appending to the slice the Set already holds.
pageRangeAppended(old, first, last) ==
  old \o (IF last < first THEN <<>> ELSE [i \in 1..(last - first + 1) |-> first + i - 1])

\* s.Pages after the loop for i := first; i <= last; i++, which appends to a
\* fresh slice: what the Set held before (old) is dropped.
pageRange(old, first, last) ==
  IF last < first THEN <<>> ELSE [i \in 1..(last - first + 1) |-> first + i - 1]

\* (s *Set) generateNumbers(): the Set after the call and the call's locals.
\* make([]int, 0, last-first+1) panics on a negative capacity: the call then
\* ends there, with s.Pages as it was.
generateNumbers(set, opt, inf) ==
  IF set.Total <= set.PerPage
  THEN [s |-> resetFirstPage(set), g |-> NoGen]
  ELSE LET numPages == numPagesOf(set.Total, set.PerPage, inf)
           s1  == clampPage([set EXCEPT !.TotalPages = numPages], numPages)
           w   == window(s1.Page, numPages, opt.NumPageNums)
           s2  == pin(s1, w.first, w.last, numPages)
           cap == Wrap(Wrap(w.last - w.first) + 1)
       IN [s |-> IF cap < 0 THEN s2
                 ELSE [s2 EXCEPT !.Pages = pageRange(set.Pages, w.first, w.last)],
           g |-> [computed |-> TRUE, panicked |-> cap < 0, numPages |-> numPages,
                  clamped |-> set.Page > numPages, half |-> w.half,
                  first |-> w.first, last |-> w.last,
                  front |-> w.front, back |-> w.back]]

\* (s *Set) SetTotal(t int)
SetTotal(set, opt, inf, t) == generateNumbers([set EXCEPT !.Total = t], opt, inf)

\* (s *Set) SetParams(p url.Values)
SetParams(set, p) == [set EXCEPT !.Params = p]

\* ---------------------------------------------------------------------- HTML

Anchor(class, uri, qp, text) ==
  [tag |-> "a", class |-> class, uri |-> uri, query |-> Encode(qp), text |-> text]
Ellipsis(class) ==
  [tag |-> "span", class |-> class, uri |-> "", query |-> <<>>, text |-> "..."]

\* The query params every link of HTML is built from.
linkParams(set, qp) == IF qp.isNil THEN EmptyValues ELSE qp

RECURSIVE htmlPages(_, _, _, _, _, _)
\* The loop over s.Pages: qp is the one map, its page key set again per link.
htmlPages(set, opt, uri, qp, i, b) ==
  IF i > Len(set.Pages) THEN [b |-> b, qp |-> qp]
  ELSE LET p   == set.Pages[i]
           c   == IF set.Page = p THEN "pg-page pg-selected" ELSE "pg-page"
           qp1 == ValuesSet(qp, opt.PageParam, Itoa(p))
       IN htmlPages(set, opt, uri, qp1, i + 1,
                    Append(b, Anchor(c, uri, qp1, Itoa(p))))

\* (s *Set) HTML(uri string, qp url.Values) string: the fragments written, and
\* the map the links were built in as the call leaves it.
HTML(set, opt, uri, qp) ==
  LET qp0 == linkParams(set, qp)
      qp1 == IF set.PinFirstPage THEN ValuesSet(qp0, opt.PageParam, "1") ELSE qp0
      b1  == IF set.PinFirstPage
             THEN <<Anchor("pg-page-first", uri, qp1, "1"),
                    Ellipsis("pg-page-ellipsis-first")>>
             ELSE <<>>
      r   == htmlPages(set, opt, uri, qp1, 1, b1)
      qp2 == IF set.PinLastPage
             THEN ValuesSet(r.qp, opt.PageParam, Itoa(set.TotalPages)) ELSE r.qp
      b2  == IF set.PinLastPage
             THEN r.b \o <<Ellipsis("pg-page-ellipsis-last"),
                           Anchor("pg-page-last", uri, qp2, Itoa(set.TotalPages))>>
             ELSE r.b
  IN [b |-> b2, qp |-> qp2]

\* --------------------------------------------------------------------- state

VARIABLES
  o,        \* the Paginator's Opt
  intOfInf, \* what int(+Inf) gives in this build
  s,        \* the request's Set
  op,       \* the call that returned last
  args,     \* the page and perPage of the New call, while it returned last
  gen,      \* the locals of the generateNumbers call, while SetTotal returned last
  again,    \* the last call was SetTotal with the total the call before it set
  out       \* what HTML returned, while HTML returned last

vars == <<o, intOfInf, s, op, args, gen, again, out>>

NoArgs == [page |-> 0, perPage |-> 0]

\* The arguments the calls are made with.
PageArgs == 0..MaxPageArg
PerPageArgs == -1..MaxPerPageArg
TotalArgs == 0..MaxTotalArg
PageTexts == {"", "2"}
PerPageTexts == {"all", "abc", "1"}
URIs == {"/list"}
ParamArgs == {NilValues, MakeValues("q", <<"a b">>)}
QueryArgs == {NilValues, MakeValues("q", <<"x", "a b">>)}

Init ==
  /\ o \in {New(opt) : opt \in Opts}
  /\ intOfInf \in IntOfInfOutcomes
  /\ s = ZeroSet
  /\ op = "none"
  /\ args = NoArgs
  /\ gen = NoGen
  /\ again = FALSE
  /\ out = <<>>

CallNew ==
  \E page \in PageArgs, perPage \in PerPageArgs :
    /\ s' = PaginatorNew(o, page, perPage)
    /\ op' = "New"
    /\ args' = [page |-> page, perPage |-> perPage]
    /\ gen' = NoGen
    /\ again' = FALSE
    /\ out' = <<>>
    /\ UNCHANGED <<o, intOfInf>>

CallNewFromURL ==
  \E pt \in PageTexts, ppt \in PerPageTexts :
    LET q == [isNil |-> FALSE,
              m |-> [NoValues EXCEPT ![o.PageParam] = IF pt = "" THEN <<>> ELSE <<pt>>,
                                     ![o.PerPageParam] = <<ppt>>]]
    IN /\ s' = NewFromURL(o, q)
       /\ op' = "NewFromURL"
       /\ args' = fromURL(o, q)
       /\ gen' = NoGen
       /\ again' = FALSE
       /\ out' = <<>>
       /\ UNCHANGED <<o, intOfInf>>

CallSetTotal ==
  /\ op # "none"
  /\ \E t \in TotalArgs :
       LET r == SetTotal(s, o, intOfInf, t)
       IN /\ s' = r.s
          /\ gen' = r.g
          /\ again' = (op = "SetTotal" /\ t = s.Total)
  /\ op' = "SetTotal"
  /\ args' = NoArgs
  /\ out' = <<>>
  /\ UNCHANGED <<o, intOfInf>>

CallSetParams ==
  /\ op # "none"
  /\ \E p \in ParamArgs : s' = SetParams(s, p)
  /\ op' = "SetParams"
  /\ args' = NoArgs
  /\ gen' = NoGen
  /\ again' = FALSE
  /\ out' = <<>>
  /\ UNCHANGED <<o, intOfInf>>

\* HTML on a map of the caller's own (or nil); the Set is only read.
CallHTML ==
  /\ op # "none"
  /\ \E uri \in URIs, q \in QueryArgs : out' = HTML(s, o, uri, q).b
  /\ op' = "HTML"
  /\ args' = NoArgs
  /\ gen' = NoGen
  /\ again' = FALSE
  /\ UNCHANGED <<o, intOfInf, s>>

\* A request's Set is made and given totals.
Next == CallNew \/ CallNewFromURL \/ CallSetTotal

Spec == Init /\ [][Next]_vars

\* The same with SetParams and HTML.
NextHTML == CallNew \/ CallNewFromURL \/ CallSetTotal \/ CallSetParams \/ CallHTML

SpecHTML == Init /\ [][NextHTML]_vars

\* -------------------------------------------------------------------- claims

\* The last call made the Set (New or NewFromURL).
JustMade == op \in {"New", "NewFromURL"}

\* The last call was a SetTotal that went on to compute a window on a Set with
\* a per-page of at least 1.
WindowComputed == op = "SetTotal" /\ gen.computed /\ s.PerPage >= 1

\* C1: the Set's Page is at least 1 in every state that New followed by any
\* number of SetTotal calls reaches.
C1_PageAtLeastOne == op # "none" => s.Page >= 1

\* C2: in every state that New followed by any number of SetTotal calls reaches,
\* Offset is (Page - 1) * PerPage and Limit is PerPage.
C2_OffsetLimitDerived ==
  op # "none" =>
    /\ s.Offset = Wrap(Wrap(s.Page - 1) * s.PerPage)
    /\ s.Limit = s.PerPage

\* C2's case: SetTotal pulled a page beyond the last one back to it, on a Set
\* whose offset is then not 0.
C2_Witness ==
  /\ op = "SetTotal" /\ gen.clamped /\ s.PerPage >= 2
  /\ s.Page = s.TotalPages /\ s.Offset = (s.TotalPages - 1) * s.PerPage /\ s.Offset > 0

\* C3 as stated: with AllowAll off, the PerPage of the Set New returns is at
\* most MaxPerPage, for every perPage argument (also one below 1).
C3_PerPageAtMostMax == (JustMade /\ ~o.AllowAll) => s.PerPage <= o.MaxPerPage

\* C3 amended: with AllowAll off, the PerPage of the Set New returns is at most
\* MaxPerPage for a perPage argument of at least 1, and is DefaultPerPage,
\* unclamped, for a perPage argument below 1.
C3_PerPageClamped ==
  (JustMade /\ ~o.AllowAll) =>
    IF args.perPage < 1 THEN s.PerPage = o.DefaultPerPage
    ELSE s.PerPage <= o.MaxPerPage

\* C3's case: a perPage argument above MaxPerPage was clamped to it.
C3_Witness ==
  JustMade /\ ~o.AllowAll /\ args.perPage > o.MaxPerPage /\ s.PerPage = o.MaxPerPage

\* C4: with AllowAll on, a negative perPage gives PerPage 0 and Limit 0 and a
\* perPage of at least 1 is kept as it is, also above MaxPerPage; with AllowAll
\* off, a negative perPage gives DefaultPerPage.
C4_Unbounded ==
  JustMade =>
    /\ (o.AllowAll /\ args.perPage < 0) => (s.PerPage = 0 /\ s.Limit = 0)
    /\ (o.AllowAll /\ args.perPage >= 1) => s.PerPage = args.perPage
    /\ (~o.AllowAll /\ args.perPage < 0) => s.PerPage = o.DefaultPerPage

\* C4's case: NewFromURL read the AllowAllParam text as -1 and, AllowAll being
\* on, returned an unbounded Set.
C4_Witness ==
  op = "NewFromURL" /\ o.AllowAll /\ args.perPage = -1 /\ s.PerPage = 0 /\ s.Limit = 0

\* C5: a SetTotal call with the total the SetTotal call before it set leaves
\* Pages, the pin flags, TotalPages, Page and Offset as they were.
C5_SetTotalIdempotent ==
  [][again' =>
       /\ s'.Pages = s.Pages
       /\ s'.PinFirstPage = s.PinFirstPage
       /\ s'.PinLastPage = s.PinLastPage
       /\ s'.TotalPages = s.TotalPages
       /\ s'.Page = s.Page
       /\ s'.Offset = s.Offset]_vars

\* C5's case: the second of two SetTotal calls with one total has returned, on a
\* Set with a window of several pages and a pinned first page.
C5_Witness ==
  again /\ gen.computed /\ s.PerPage >= 1 /\ Len(s.Pages) > 1 /\ s.PinFirstPage

C7_ParamsInLinks ==
  op = "HTML" =>
    \A i \in 1..Len(out) :
      out[i].tag = "a" =>
        \A k \in Keys : \A j \in 1..Len(s.Params.m[k]) :
          \E n \in 1..Len(out[i].query) :
            out[i].query[n] = <<QueryEscape(k), QueryEscape(s.Params.m[k][j])>>

\* C8: after every SetTotal that computes a window, PinFirstPage is true exactly
\* when the first page number is not 1 and PinLastPage exactly when the last
\* page number is not TotalPages.
C8_PinsMatchWindow ==
  (WindowComputed /\ Len(s.Pages) > 0) =>
    /\ s.PinFirstPage <=> (s.Pages[1] # 1)
    /\ s.PinLastPage <=> (s.Pages[Len(s.Pages)] # s.TotalPages)

\* C9 as stated: there are an Opt, a page, a perPage and a total, with more
\* pages than NumPageNums, for which one SetTotal call in this build runs the
\* front re-expansion and then the back one.
C9_BothAdjustmentsFire ==
  \E opt \in Opts, page \in PageArgs, perPage \in PerPageArgs, t \in TotalArgs :
    LET r == SetTotal(PaginatorNew(New(opt), page, perPage), New(opt), intOfInf, t)
    IN r.g.computed /\ r.g.numPages > opt.NumPageNums /\ r.g.front /\ r.g.back

\* C9 amended: no SetTotal call runs both re-expansions; with more pages than
\* NumPageNums the front one runs exactly when Page <= half and the back one
\* exactly when Page > numPages - half, and these exclude each other.
C9_AdjustmentsExclusive ==
  (op = "SetTotal" /\ gen.computed) =>
    /\ ~(gen.front /\ gen.back)
    /\ (s.PerPage >= 1 /\ gen.numPages > o.NumPageNums) =>
         /\ gen.front <=> (s.Page <= gen.half)
         /\ gen.back <=> (s.Page > gen.numPages - gen.half)

\* C9's case: one page more than NumPageNums, and the back re-expansion ran.
C9_Witness ==
  /\ WindowComputed /\ gen.numPages = o.NumPageNums + 1 /\ o.NumPageNums >= 2
  /\ gen.back /\ ~gen.front

\* C10: after a SetTotal that computes a window on a Set with PerPage >= 1,
\* TotalPages is the ceiling of Total / PerPage and Pages is the ascending run
\* first..last with 1 <= first <= Page <= last <= TotalPages, so that exactly
\* one entry is the current page.
C10_WindowInRange ==
  WindowComputed =>
    /\ s.TotalPages * s.PerPage >= s.Total
    /\ (s.TotalPages - 1) * s.PerPage < s.Total
    /\ Len(s.Pages) >= 1
    /\ \A i \in 1..Len(s.Pages) : s.Pages[i] = s.Pages[1] + i - 1
    /\ 1 <= s.Pages[1]
    /\ s.Pages[1] <= s.Page
    /\ s.Page <= s.Pages[Len(s.Pages)]
    /\ s.Pages[Len(s.Pages)] <= s.TotalPages
    /\ Cardinality({i \in 1..Len(s.Pages) : s.Pages[i] = s.Page}) = 1

\* C10's case: the page asked for was beyond the last one, and the window the
\* back re-expansion made starts at page 1 and ends at the last page.
C10_Witness ==
  /\ WindowComputed /\ gen.clamped /\ gen.back /\ s.Total > s.TotalPages
  /\ s.Pages[1] = 1 /\ s.Pages[Len(s.Pages)] = s.TotalPages /\ s.Page = s.TotalPages

====
